---- MODULE Spec2Model ----
(***************************************************************************)
(* The project/task scheduling engine of src/core/project_manager.py       *)
(* (class ProjectManager) as a state machine.                              *)
(*                                                                         *)
(* Identifiers: uuid4 strings are modelled as positive integers handed out *)
(* in creation order; 0 is an id that is never generated.  Callers pass    *)
(* arbitrary ids, so every operation also receives unknown ones.           *)
(* Time: datetime.now() reads the variable now; Optional[datetime] = None  *)
(* is the value None.  Hours are exact integer quantities.                 *)
(* A dependency list is the set of its ids (the code tests membership and   *)
(* filters it); it may name any id, also the task's own or a later task's, *)
(* since the list object stays the caller's.                               *)
(* assigned_agents is a list, as in the code, which iterates over it.      *)
(* Of name and title only whether the string is empty is kept ("" or not). *)
(* Fields no operation reads (description, priority, tags, notes, owner,   *)
(* created_at, updated_at) are left out of the records.                    *)
(***************************************************************************)
EXTENDS Integers, Sequences, FiniteSets, TLC

VARIABLES
    projects,   \* ProjectManager.projects: project id -> Project
    now,        \* the wall clock read by datetime.now()
    call,       \* the last call made: operation and arguments
    ret,        \* what the last call did: outcome and returned value
    entered,    \* history: task id -> time of its latest non-COMPLETED -> COMPLETED step
    threads,    \* caller -> the call it is executing: position in the method, locals
    sched       \* how the callers are serialized: lock discipline, lock holders,
                \* and (history) the projects as they were when the first call began

vars == <<projects, now, call, ret, entered, threads, sched>>

\* ------------------------------------------------------------------ bounds
MaxProjects == 2
MaxTasks == 2
MaxClock == 2
MaxHours == 2
MaxPathTasks == 3
MaxCallers == 2

\* ------------------------------------------------------------- constants
None == -1

NOT_STARTED == "not_started"
IN_PROGRESS == "in_progress"
BLOCKED == "blocked"
COMPLETED == "completed"
CANCELLED == "cancelled"
TaskStatus == {NOT_STARTED, IN_PROGRESS, BLOCKED, COMPLETED, CANCELLED}

PLANNING == "planning"
ProjectStatus == {PLANNING, "active", "on_hold", COMPLETED, CANCELLED}

\* Outcomes of a call: a normal return, or the ValueError("... not found")
\* every operation raises for an id it does not know.
OK == "ok"
NotFound == "ValueError: not found"

\* -------------------------------------------------------------- helpers
RECURSIVE SumSeq(_)
SumSeq(s) == IF s = <<>> THEN 0 ELSE Head(s) + SumSeq(Tail(s))

\* The tasks of a project in dict (insertion) order.
TaskList(project) == [i \in DOMAIN project.order |-> project.tasks[project.order[i]]]

AllTaskIds(ps) == UNION {DOMAIN ps[p].tasks : p \in DOMAIN ps}

\* ------------------------------------------------------------- entities
\* ProjectTask(...) as built by add_task_to_project.
ProjectTask(task_id, title, estimated_hours, dependencies, assigned_agents, due_date) ==
    [id |-> task_id,
     title |-> title,
     status |-> NOT_STARTED,
     assigned_agents |-> assigned_agents,
     dependencies |-> dependencies,
     estimated_hours |-> estimated_hours,
     actual_hours |-> 0,
     due_date |-> due_date,
     completion_date |-> None]

\* Project(...) as built by create_project.
Project(project_id, name, start_date, due_date, budget_hours) ==
    [id |-> project_id,
     name |-> name,
     status |-> PLANNING,
     tasks |-> <<>>,
     order |-> <<>>,
     start_date |-> start_date,
     due_date |-> due_date,
     completion_date |-> None,
     budget_hours |-> budget_hours,
     spent_hours |-> 0]

\* uuid.uuid4(): an id no project (no task) has yet.
NewProjectId(ps) == Cardinality(DOMAIN ps) + 1
NewTaskId(ps) == Cardinality(AllTaskIds(ps)) + 1

\* ----------------------------------------------------------- operations
\* Each operation maps the manager's projects and its arguments to
\* [outcome, projects, value]: how the call ends, the projects afterwards,
\* and the value returned.

Raise(ps, error) == [outcome |-> error, projects |-> ps, value |-> <<>>]
Return(ps, v) == [outcome |-> OK, projects |-> ps, value |-> v]

create_project(ps, name, start_date, due_date, budget_hours) ==
    LET project_id == NewProjectId(ps)
        project == Project(project_id, name, start_date, due_date, budget_hours)
    IN  Return((project_id :> project) @@ ps, project_id)

\* Faulty variant: an unknown project is created on the fly (a setdefault).
add_task_to_project_setdefault(ps, project_id, title, estimated_hours, dependencies, assigned_agents, due_date) ==
    LET qs == IF project_id \in DOMAIN ps
              THEN ps
              ELSE (project_id :> Project(project_id, "project", None, None, 0)) @@ ps
        task_id == NewTaskId(qs)
        task == ProjectTask(task_id, title, estimated_hours, dependencies, assigned_agents,
                            due_date)
    IN  Return([qs EXCEPT ![project_id].tasks = (task_id :> task) @@ @,
                          ![project_id].order = Append(@, task_id)],
               task_id)

\* Faulty variant: a task added to a completed project reopens the project.
add_task_to_project_reopen(ps, project_id, title, estimated_hours, dependencies, assigned_agents, due_date) ==
    IF project_id \notin DOMAIN ps
    THEN Raise(ps, NotFound)
    ELSE LET task_id == NewTaskId(ps)
             task == ProjectTask(task_id, title, estimated_hours, dependencies,
                                 assigned_agents, due_date)
         IN  Return([ps EXCEPT ![project_id].tasks = (task_id :> task) @@ @,
                               ![project_id].order = Append(@, task_id),
                               ![project_id].status =
                                   IF @ = COMPLETED THEN "active" ELSE @,
                               ![project_id].completion_date = None],
                    task_id)

add_task_to_project(ps, project_id, title, estimated_hours, dependencies, assigned_agents, due_date) ==
    IF project_id \notin DOMAIN ps
    THEN Raise(ps, NotFound)
    ELSE LET task_id == NewTaskId(ps)
             task == ProjectTask(task_id, title, estimated_hours, dependencies,
                                 assigned_agents, due_date)
         IN  Return([ps EXCEPT ![project_id].tasks = (task_id :> task) @@ @,
                               ![project_id].order = Append(@, task_id)],
                    task_id)

\* Faulty variant: any() where the code has all().
_some_task_completed(project) ==
    \E t \in DOMAIN project.tasks : project.tasks[t].status = COMPLETED

_all_tasks_completed(project) ==
    IF DOMAIN project.tasks = {}
    THEN FALSE
    ELSE \A t \in DOMAIN project.tasks : project.tasks[t].status = COMPLETED

\* Faulty variant: the old status is not looked at.
SetCompletionDateAlways(task, old_status, status, t) ==
    IF status = COMPLETED THEN [task EXCEPT !.completion_date = t] ELSE task

\* "Set completion date if completed"
\* Faulty variant: the date is cleared when the task leaves COMPLETED.
SetCompletionDateOrClear(task, old_status, status, t) ==
    IF status = COMPLETED /\ old_status # COMPLETED
    THEN [task EXCEPT !.completion_date = t]
    ELSE IF status # COMPLETED
    THEN [task EXCEPT !.completion_date = None]
    ELSE task

SetCompletionDate(task, old_status, status, t) ==
    IF status = COMPLETED /\ old_status # COMPLETED
    THEN [task EXCEPT !.completion_date = t]
    ELSE task

\* "Update project status if all tasks completed"
\* Faulty variant: the project is marked COMPLETED without a date.
UpdateProjectStatusUndated(project, t) ==
    IF _all_tasks_completed(project)
    THEN [project EXCEPT !.status = COMPLETED]
    ELSE project

UpdateProjectStatus(project, t) ==
    IF _all_tasks_completed(project)
    THEN [project EXCEPT !.status = COMPLETED, !.completion_date = t]
    ELSE project

\* Faulty variant: a task in COMPLETED or CANCELLED is not moved.
update_task_status_terminal(ps, project_id, task_id, status, t) ==
    IF project_id \notin DOMAIN ps
    THEN Raise(ps, NotFound)
    ELSE IF task_id \notin DOMAIN ps[project_id].tasks
    THEN Raise(ps, NotFound)
    ELSE IF ps[project_id].tasks[task_id].status \in {COMPLETED, CANCELLED}
    THEN Raise(ps, "ValueError: invalid transition")
    ELSE LET task == ps[project_id].tasks[task_id]
             old_status == task.status
             task1 == SetCompletionDate([task EXCEPT !.status = status],
                                        old_status, status, t)
             project1 == [ps[project_id] EXCEPT !.tasks[task_id] = task1]
         IN  Return([ps EXCEPT ![project_id] = UpdateProjectStatus(project1, t)], <<>>)

\* Faulty variant: the status is set on every task of the project.
update_task_status_every_task(ps, project_id, task_id, status, t) ==
    IF project_id \notin DOMAIN ps
    THEN Raise(ps, NotFound)
    ELSE IF task_id \notin DOMAIN ps[project_id].tasks
    THEN Raise(ps, NotFound)
    ELSE LET project1 ==
                 [ps[project_id] EXCEPT !.tasks =
                     [id \in DOMAIN @ |->
                         SetCompletionDate([@[id] EXCEPT !.status = status],
                                           @[id].status, status, t)]]
         IN  Return([ps EXCEPT ![project_id] = UpdateProjectStatus(project1, t)], <<>>)

\* Faulty variant: completing a task with no time logged books its estimate.
update_task_status_books_estimate(ps, project_id, task_id, status, t) ==
    IF project_id \notin DOMAIN ps
    THEN Raise(ps, NotFound)
    ELSE IF task_id \notin DOMAIN ps[project_id].tasks
    THEN Raise(ps, NotFound)
    ELSE LET task == ps[project_id].tasks[task_id]
             old_status == task.status
             booked == IF status = COMPLETED /\ task.actual_hours = 0
                       THEN task.estimated_hours ELSE 0
             task1 == SetCompletionDate([task EXCEPT !.status = status,
                                                     !.actual_hours = @ + booked],
                                        old_status, status, t)
             project1 == [ps[project_id] EXCEPT !.tasks[task_id] = task1,
                                                !.spent_hours = @ + booked]
         IN  Return([ps EXCEPT ![project_id] = UpdateProjectStatus(project1, t)], <<>>)

update_task_status(ps, project_id, task_id, status, t) ==
    IF project_id \notin DOMAIN ps
    THEN Raise(ps, NotFound)
    ELSE IF task_id \notin DOMAIN ps[project_id].tasks
    THEN Raise(ps, NotFound)
    ELSE LET task == ps[project_id].tasks[task_id]
             old_status == task.status
             task1 == SetCompletionDate([task EXCEPT !.status = status],
                                        old_status, status, t)
             project1 == [ps[project_id] EXCEPT !.tasks[task_id] = task1]
         IN  Return([ps EXCEPT ![project_id] = UpdateProjectStatus(project1, t)], <<>>)

\* Faulty variant: the project's spent_hours is not updated.
log_time_task_only(ps, project_id, task_id, hours) ==
    IF project_id \notin DOMAIN ps
    THEN Raise(ps, NotFound)
    ELSE IF task_id \notin DOMAIN ps[project_id].tasks
    THEN Raise(ps, NotFound)
    ELSE Return([ps EXCEPT ![project_id].tasks[task_id].actual_hours = @ + hours], <<>>)

log_time(ps, project_id, task_id, hours) ==
    IF project_id \notin DOMAIN ps
    THEN Raise(ps, NotFound)
    ELSE IF task_id \notin DOMAIN ps[project_id].tasks
    THEN Raise(ps, NotFound)
    ELSE Return([ps EXCEPT ![project_id].tasks[task_id].actual_hours = @ + hours,
                           ![project_id].spent_hours = @ + hours],
                <<>>)

\* ------------------------------------------------------ read operations
\* Exact fractions stand for the float percentages.
Frac(n, d) == [num |-> n, den |-> d]
FracLess(a, b) == a.num * b.den < b.num * a.den
Min(a, b) == IF a < b THEN a ELSE b
Max(a, b) == IF a > b THEN a ELSE b

\* Faulty variant: a due date not after the start date counts as no progress
\* expected.
_calculate_expected_progress_no_duration(project, t) ==
    IF project.start_date = None \/ project.due_date = None
    THEN Frac(0, 1)
    ELSE LET total_duration == project.due_date - project.start_date
             elapsed_duration == t - project.start_date
         IN  IF total_duration <= 0
             THEN Frac(0, 1)
             ELSE Frac(Max(0, Min(100 * total_duration, elapsed_duration * 100)),
                       total_duration)

_calculate_expected_progress(project, t) ==
    IF project.start_date = None \/ project.due_date = None
    THEN Frac(0, 1)
    ELSE LET total_duration == project.due_date - project.start_date
             elapsed_duration == t - project.start_date
         IN  IF total_duration <= 0
             THEN Frac(100, 1)
             ELSE Frac(Max(0, Min(100 * total_duration, elapsed_duration * 100)),
                       total_duration)

\* Faulty variant: a completed task past its due date counts as overdue.
get_project_metrics_overdue_completed(ps, project_id, t) ==
    IF project_id \notin DOMAIN ps
    THEN Raise(ps, NotFound)
    ELSE LET project == ps[project_id]
             tasks == TaskList(project)
             tasks_completed == Len(SelectSeq(tasks, LAMBDA x : x.status = COMPLETED))
             completion_percentage ==
                 IF tasks = <<>> THEN Frac(0, 1) ELSE Frac(tasks_completed * 100, Len(tasks))
             expected_progress == _calculate_expected_progress(project, t)
         IN  Return(ps, [project_id |-> project_id,
                         completion_percentage |-> completion_percentage,
                         tasks_completed |-> tasks_completed,
                         tasks_total |-> Len(tasks),
                         hours_spent |-> project.spent_hours,
                         hours_estimated |-> project.budget_hours,
                         days_remaining |->
                             IF tasks # <<>> /\ project.due_date # None
                             THEN Max(0, project.due_date - t) ELSE 0,
                         is_on_schedule |->
                             IF /\ tasks # <<>>
                                /\ project.due_date # None
                                /\ FracLess(completion_percentage, Frac(100, 1))
                             THEN ~FracLess(Frac(completion_percentage.num * 10,
                                                 completion_percentage.den),
                                            Frac(expected_progress.num * 9,
                                                 expected_progress.den))
                             ELSE TRUE,
                         blocked_tasks |-> Len(SelectSeq(tasks, LAMBDA x : x.status = BLOCKED)),
                         overdue_tasks |-> Len(SelectSeq(tasks, LAMBDA x :
                             x.due_date # None /\ x.due_date < t))])

get_project_metrics(ps, project_id, t) ==
    IF project_id \notin DOMAIN ps
    THEN Raise(ps, NotFound)
    ELSE LET project == ps[project_id]
             tasks == TaskList(project)
         IN  IF tasks = <<>>
             THEN Return(ps, [project_id |-> project_id,
                              completion_percentage |-> Frac(0, 1),
                              tasks_completed |-> 0,
                              tasks_total |-> 0,
                              hours_spent |-> project.spent_hours,
                              hours_estimated |-> project.budget_hours,
                              days_remaining |-> 0,
                              is_on_schedule |-> TRUE,
                              blocked_tasks |-> 0,
                              overdue_tasks |-> 0])
             ELSE LET tasks_completed == Len(SelectSeq(tasks, LAMBDA x : x.status = COMPLETED))
                      tasks_total == Len(tasks)
                      completion_percentage == Frac(tasks_completed * 100, tasks_total)
                      blocked_tasks == Len(SelectSeq(tasks, LAMBDA x : x.status = BLOCKED))
                      overdue_tasks == Len(SelectSeq(tasks, LAMBDA x :
                          x.due_date # None /\ x.due_date < t /\ x.status # COMPLETED))
                      days_remaining ==
                          IF project.due_date # None THEN Max(0, project.due_date - t) ELSE 0
                      expected_progress == _calculate_expected_progress(project, t)
                      is_on_schedule ==
                          IF project.due_date # None /\ FracLess(completion_percentage, Frac(100, 1))
                          THEN ~FracLess(Frac(completion_percentage.num * 10,
                                              completion_percentage.den),
                                         Frac(expected_progress.num * 9, expected_progress.den))
                          ELSE TRUE
                  IN  Return(ps, [project_id |-> project_id,
                                  completion_percentage |-> completion_percentage,
                                  tasks_completed |-> tasks_completed,
                                  tasks_total |-> tasks_total,
                                  hours_spent |-> project.spent_hours,
                                  hours_estimated |-> project.budget_hours,
                                  days_remaining |-> days_remaining,
                                  is_on_schedule |-> is_on_schedule,
                                  blocked_tasks |-> blocked_tasks,
                                  overdue_tasks |-> overdue_tasks])

\* The tasks among task_id's dependencies that exist in the project.
\* Faulty variant: dependency ids that name no task of the project are
\* dropped from the task while its dependencies are read.
get_task_dependencies_prune(ps, project_id, task_id) ==
    IF project_id \notin DOMAIN ps
    THEN Raise(ps, NotFound)
    ELSE IF task_id \notin DOMAIN ps[project_id].tasks
    THEN Raise(ps, NotFound)
    ELSE LET project == ps[project_id]
             task == project.tasks[task_id]
         IN  [outcome |-> OK,
              projects |-> [ps EXCEPT ![project_id].tasks[task_id].dependencies =
                                          @ \cap DOMAIN project.tasks],
              value |-> {project.tasks[dep_id] :
                            dep_id \in task.dependencies \cap DOMAIN project.tasks}]

get_task_dependencies(ps, project_id, task_id) ==
    IF project_id \notin DOMAIN ps
    THEN Raise(ps, NotFound)
    ELSE IF task_id \notin DOMAIN ps[project_id].tasks
    THEN Raise(ps, NotFound)
    ELSE LET project == ps[project_id]
             task == project.tasks[task_id]
         IN  Return(ps, {project.tasks[dep_id] :
                            dep_id \in task.dependencies \cap DOMAIN project.tasks})

\* Faulty variant: a dependency that is not a task of the project blocks the task.
dependencies_completed_strict(project, task) ==
    \A dep_id \in task.dependencies :
        dep_id \in DOMAIN project.tasks /\ project.tasks[dep_id].status = COMPLETED

\* "Check if all dependencies are completed"
dependencies_completed(project, task) ==
    \A dep_id \in {d \in task.dependencies : d \in DOMAIN project.tasks} :
        project.tasks[dep_id].status = COMPLETED

get_available_tasks(ps, project_id) ==
    IF project_id \notin DOMAIN ps
    THEN Raise(ps, NotFound)
    ELSE LET project == ps[project_id]
         IN  Return(ps, SelectSeq(TaskList(project), LAMBDA task :
                 task.status = NOT_STARTED /\ dependencies_completed(project, task)))

Duration(chain) == SumSeq([i \in DOMAIN chain |-> chain[i].estimated_hours])

\* Faulty variant: the first dependent's chain is taken, whatever its duration.
FirstDependentChain(chains, i, acc) ==
    IF i > Len(chains) THEN acc.chain ELSE chains[i]

\* The loop of _get_task_chain over the dependents' chains, from chain i on:
\* acc is [chain |-> longest_dependent_chain, max_duration |-> max_duration].
RECURSIVE LongestDependentChain(_, _, _)
LongestDependentChain(chains, i, acc) ==
    IF i > Len(chains)
    THEN acc.chain
    ELSE LET dep_duration == Duration(chains[i])
         IN  IF dep_duration > acc.max_duration
             THEN LongestDependentChain(chains, i + 1,
                      [chain |-> chains[i], max_duration |-> dep_duration])
             ELSE LongestDependentChain(chains, i + 1, acc)

\* Faulty variant: every task that has dependencies counts as a dependent,
\* whether or not it depends on this task.
RECURSIVE _get_task_chain_any_dependent(_, _, _)
_get_task_chain_any_dependent(project, task_id, visited) ==
    IF task_id \in visited \/ task_id \notin DOMAIN project.tasks
    THEN <<>>
    ELSE LET visited1 == visited \cup {task_id}
             task == project.tasks[task_id]
             dependent_tasks == SelectSeq(TaskList(project),
                                          LAMBDA x : x.dependencies # {})
             chains == [i \in DOMAIN dependent_tasks |->
                           _get_task_chain_any_dependent(project, dependent_tasks[i].id, visited1)]
         IN  <<task>> \o LongestDependentChain(chains, 1,
                                               [chain |-> <<>>, max_duration |-> 0])

\* Faulty variant: a task met again on the current path is still put on the
\* chain, only not extended.
RECURSIVE _get_task_chain_revisits(_, _, _)
_get_task_chain_revisits(project, task_id, visited) ==
    IF task_id \notin DOMAIN project.tasks
    THEN <<>>
    ELSE IF task_id \in visited
    THEN <<project.tasks[task_id]>>
    ELSE LET visited1 == visited \cup {task_id}
             task == project.tasks[task_id]
             dependent_tasks == SelectSeq(TaskList(project),
                                          LAMBDA x : task_id \in x.dependencies)
             chains == [i \in DOMAIN dependent_tasks |->
                           _get_task_chain_revisits(project, dependent_tasks[i].id, visited1)]
         IN  <<task>> \o LongestDependentChain(chains, 1,
                                               [chain |-> <<>>, max_duration |-> 0])

RECURSIVE _get_task_chain(_, _, _)
_get_task_chain(project, task_id, visited) ==
    IF task_id \in visited \/ task_id \notin DOMAIN project.tasks
    THEN <<>>
    ELSE LET visited1 == visited \cup {task_id}
             task == project.tasks[task_id]
             dependent_tasks == SelectSeq(TaskList(project),
                                          LAMBDA x : task_id \in x.dependencies)
             chains == [i \in DOMAIN dependent_tasks |->
                           _get_task_chain(project, dependent_tasks[i].id, visited1)]
         IN  <<task>> \o LongestDependentChain(chains, 1,
                                               [chain |-> <<>>, max_duration |-> 0])

\* Faulty variant: without a dependency-free task, every task is a start task.
StartTasksOrAll(project) ==
    LET free == SelectSeq(TaskList(project), LAMBDA x : x.dependencies = {})
    IN  IF free # <<>> THEN free ELSE TaskList(project)

\* "Find tasks with no dependencies (start tasks)"
StartTasks(project) == SelectSeq(TaskList(project), LAMBDA x : x.dependencies = {})

\* Faulty variant: the chain of the first start task is taken.
FirstStartChain(chains, i, acc) ==
    IF i > Len(chains) THEN acc.chain ELSE chains[i]

\* The loop of get_critical_path over the start tasks' chains.
RECURSIVE LongestChain(_, _, _)
LongestChain(chains, i, acc) ==
    IF i > Len(chains)
    THEN acc.chain
    ELSE LET chain_duration == Duration(chains[i])
         IN  IF chain_duration > acc.max_duration
             THEN LongestChain(chains, i + 1,
                      [chain |-> chains[i], max_duration |-> chain_duration])
             ELSE LongestChain(chains, i + 1, acc)

get_critical_path(ps, project_id) ==
    IF project_id \notin DOMAIN ps
    THEN Raise(ps, NotFound)
    ELSE LET project == ps[project_id]
             start_tasks == StartTasks(project)
             chains == [i \in DOMAIN start_tasks |->
                           _get_task_chain(project, start_tasks[i].id, {})]
         IN  IF start_tasks # <<>>
             THEN Return(ps, LongestChain(chains, 1, [chain |-> <<>>, max_duration |-> 0]))
             ELSE Return(ps, <<>>)

\* The keys of self.projects in dict (insertion) order: ids are handed out
\* in creation order.
RECURSIVE ProjectIds(_)
ProjectIds(ids) ==
    IF ids = {} THEN <<>>
    ELSE LET first == CHOOSE p \in ids : \A q \in ids : p <= q
         IN  <<first>> \o ProjectIds(ids \ {first})

\* One pass of the innermost loop body of get_resource_utilization.
AddUtilization(utilization, project, task, agent_id) ==
    LET known == IF agent_id \in DOMAIN utilization THEN utilization
                 ELSE (agent_id :> [total_hours |-> 0, projects |-> <<>>, tasks |-> <<>>])
                      @@ utilization
        entry == known[agent_id]
    IN  [known EXCEPT ![agent_id] =
            [total_hours |-> entry.total_hours + task.estimated_hours,
             projects |-> IF \E i \in DOMAIN entry.projects : entry.projects[i] = project.id
                          THEN entry.projects
                          ELSE Append(entry.projects, project.id),
             tasks |-> Append(entry.tasks, [project_id |-> project.id,
                                            task_id |-> task.id,
                                            task_title |-> task.title,
                                            hours |-> task.estimated_hours,
                                            status |-> task.status])]]

\* for agent_id in task.assigned_agents, from position i on.
RECURSIVE UtilizationOfAgents(_, _, _, _)
UtilizationOfAgents(utilization, project, task, i) ==
    IF i > Len(task.assigned_agents) THEN utilization
    ELSE UtilizationOfAgents(
             AddUtilization(utilization, project, task, task.assigned_agents[i]),
             project, task, i + 1)

\* for task in project.tasks.values(), from position i on.
RECURSIVE UtilizationOfTasks(_, _, _)
UtilizationOfTasks(utilization, project, i) ==
    IF i > Len(project.order) THEN utilization
    ELSE UtilizationOfTasks(
             UtilizationOfAgents(utilization, project, project.tasks[project.order[i]], 1),
             project, i + 1)

\* for project in self.projects.values(), from position i of ids on.
RECURSIVE UtilizationOfProjects(_, _, _, _)
UtilizationOfProjects(utilization, ps, ids, i) ==
    IF i > Len(ids) THEN utilization
    ELSE UtilizationOfProjects(UtilizationOfTasks(utilization, ps[ids[i]], 1), ps, ids, i + 1)

get_resource_utilization(ps) ==
    Return(ps, UtilizationOfProjects(<<>>, ps, ProjectIds(DOMAIN ps), 1))

\* available_tasks[:3]
FirstThree(s) == SubSeq(s, 1, Min(3, Len(s)))

get_dashboard_data(ps, t) ==
    LET ids == ProjectIds(DOMAIN ps)
        projects_data ==
            [i \in DOMAIN ids |->
                LET available_tasks == get_available_tasks(ps, ids[i]).value
                IN  [project |-> ps[ids[i]],
                     metrics |-> get_project_metrics(ps, ids[i], t).value,
                     available_tasks |-> Len(available_tasks),
                     critical_path_length |-> Len(get_critical_path(ps, ids[i]).value),
                     next_tasks |-> FirstThree(available_tasks)]]
        total_projects == Len(ids)
        active_projects == Len(SelectSeq(ids, LAMBDA p : ps[p].status = "active"))
        completed_projects == Len(SelectSeq(ids, LAMBDA p : ps[p].status = COMPLETED))
        total_tasks == SumSeq([i \in DOMAIN ids |-> Len(ps[ids[i]].order)])
        completed_tasks ==
            SumSeq([i \in DOMAIN ids |->
                       Len(SelectSeq(TaskList(ps[ids[i]]), LAMBDA x : x.status = COMPLETED))])
    IN  Return(ps, [projects |-> projects_data,
                    summary |-> [total_projects |-> total_projects,
                                 active_projects |-> active_projects,
                                 completed_projects |-> completed_projects,
                                 total_tasks |-> total_tasks,
                                 completed_tasks |-> completed_tasks,
                                 completion_rate |->
                                     IF total_tasks > 0
                                     THEN Frac(completed_tasks * 100, total_tasks)
                                     ELSE Frac(0, 1)],
                    resource_utilization |-> get_resource_utilization(ps).value])

\* ---------------------------------------------------------------- state
NoCall == [op |-> "__init__", project_id |-> 0, task_id |-> 0, hours |-> 0]

\* A caller that is not inside a method.
Callers == 1..MaxCallers
Idle == [pc |-> "idle", op |-> "", project_id |-> 0, task_id |-> 0, hours |-> 0,
         status |-> "", value |-> 0, old_status |-> ""]

\* The code takes no lock; locking says whether the callers wrap each call
\* in an exclusive lock of the call's project.
InitWith(locking) ==
    /\ projects = <<>>
    /\ now = 0
    /\ call = NoCall
    /\ ret = [outcome |-> OK, value |-> <<>>]
    /\ entered = <<>>
    /\ threads = [c \in Callers |-> Idle]
    /\ sched = [locking |-> locking, lock |-> [p \in 1..MaxProjects |-> 0], base |-> <<>>]

Init == InitWith(FALSE)

\* The call is made: its arguments are recorded, its effect and result applied.
Do(op, project_id, task_id, hours, r) ==
    /\ call' = [op |-> op, project_id |-> project_id, task_id |-> task_id, hours |-> hours]
    /\ ret' = [outcome |-> r.outcome, value |-> r.value]
    /\ projects' = r.projects

\* History of the tasks' steps into COMPLETED, kept beside the program state.
Entered(ps, qs, t) ==
    [id \in AllTaskIds(qs) |->
        LET p == CHOOSE q \in DOMAIN qs : id \in DOMAIN qs[q].tasks
        IN  IF id \notin AllTaskIds(ps) THEN None
            ELSE IF ps[p].tasks[id].status # COMPLETED /\ qs[p].tasks[id].status = COMPLETED
            THEN t
            ELSE entered[id]]

Step(op, project_id, task_id, hours, r) ==
    /\ Do(op, project_id, task_id, hours, r)
    /\ entered' = Entered(projects, r.projects, now)
    /\ UNCHANGED <<now, threads, sched>>

\* At most max_projects projects (max_tasks tasks) are created.
CreateProjectWith(max_projects, name, start_date, due_date) ==
    /\ Cardinality(DOMAIN projects) < max_projects
    /\ Step("create_project", 0, 0, 0, create_project(projects, name, start_date, due_date, 0))

CreateProject(max_projects) == CreateProjectWith(max_projects, "project", None, None)

AddTaskWith(max_tasks, project_id, title, estimated_hours, dependencies, assigned_agents, due_date) ==
    /\ Cardinality(AllTaskIds(projects)) < max_tasks
    /\ Step("add_task_to_project", project_id, 0, 0,
            add_task_to_project(projects, project_id, title, estimated_hours, dependencies,
                                assigned_agents, due_date))

AddTask(max_tasks, project_id, estimated_hours, dependencies) ==
    AddTaskWith(max_tasks, project_id, "task", estimated_hours, dependencies, <<>>, None)

UpdateTaskStatus(project_id, task_id, status) ==
    Step("update_task_status", project_id, task_id, 0,
         update_task_status(projects, project_id, task_id, status, now))

\* Logged totals stay within -MaxHours..MaxHours.
LogTime(project_id, task_id, hours) ==
    LET r == log_time(projects, project_id, task_id, hours)
    IN  /\ \A p \in DOMAIN r.projects : \A t \in DOMAIN r.projects[p].tasks :
              /\ r.projects[p].tasks[t].actual_hours <= MaxHours
              /\ r.projects[p].tasks[t].actual_hours >= -MaxHours
        /\ Step("log_time", project_id, task_id, hours, r)

GetProjectMetrics(project_id) ==
    Step("get_project_metrics", project_id, 0, 0,
         get_project_metrics(projects, project_id, now))

GetTaskDependencies(project_id, task_id) ==
    Step("get_task_dependencies", project_id, task_id, 0,
         get_task_dependencies(projects, project_id, task_id))

GetAvailableTasks(project_id) ==
    Step("get_available_tasks", project_id, 0, 0, get_available_tasks(projects, project_id))

GetCriticalPath(project_id) ==
    Step("get_critical_path", project_id, 0, 0, get_critical_path(projects, project_id))

GetResourceUtilization ==
    Step("get_resource_utilization", 0, 0, 0, get_resource_utilization(projects))

GetDashboardData ==
    Step("get_dashboard_data", 0, 0, 0, get_dashboard_data(projects, now))

Tick ==
    /\ now < MaxClock
    /\ now' = now + 1
    /\ call' = NoCall
    /\ ret' = [outcome |-> OK, value |-> <<>>]
    /\ UNCHANGED <<projects, entered, threads, sched>>

\* ---------------------------------------------------------- the callers
\* log_time and update_task_status run by concurrent callers, one attribute
\* read or write per step: "x += h" is a read of x followed by a write.
AllIdle == \A c \in Callers : threads[c].pc = "idle"

\* The value written back by "+=": what was read, plus the hours.
\* Faulty variant: the hours are added twice.
AddedTwice(value, hours) == value + hours + hours

Added(value, hours) == value + hours

\* A caller enters a method; with the lock discipline it first takes the
\* lock of the project, which must be free.
Begin(c, op, project_id, task_id, hours, status) ==
    /\ threads[c].pc = "idle"
    /\ project_id \in DOMAIN projects
    /\ task_id \in DOMAIN projects[project_id].tasks
    /\ sched.locking => sched.lock[project_id] = 0
    /\ threads' = [threads EXCEPT ![c] =
                      [Idle EXCEPT !.pc = "check", !.op = op, !.project_id = project_id,
                                   !.task_id = task_id, !.hours = hours, !.status = status]]
    /\ sched' = [sched EXCEPT !.lock[project_id] = IF sched.locking THEN c ELSE @,
                              !.base = IF AllIdle THEN projects ELSE @]
    /\ UNCHANGED <<projects, now, call, ret, entered>>

\* The caller moves on inside the method, having read value / old_status.
Goto(c, pc, value, old_status) ==
    /\ threads' = [threads EXCEPT ![c].pc = pc, ![c].value = value,
                                  ![c].old_status = old_status]
    /\ UNCHANGED <<now, call, ret, sched>>

\* The method returns or raises; the lock, if taken, is released.
Finish(c, outcome) ==
    /\ threads' = [threads EXCEPT ![c].pc = "done"]
    /\ sched' = [sched EXCEPT !.lock[threads[c].project_id] =
                                  IF sched.locking THEN 0 ELSE @]
    /\ call' = [op |-> threads[c].op, project_id |-> threads[c].project_id,
                task_id |-> threads[c].task_id, hours |-> threads[c].hours]
    /\ ret' = [outcome |-> outcome, value |-> <<>>]
    /\ UNCHANGED now

Write(qs) ==
    /\ projects' = qs
    /\ entered' = Entered(projects, qs, now)

\* The two "not found" tests at the head of both methods.
CheckIds(c) ==
    LET th == threads[c]
    IN  /\ th.pc = "check"
        /\ UNCHANGED <<projects, entered>>
        /\ IF /\ th.project_id \in DOMAIN projects
              /\ th.task_id \in DOMAIN projects[th.project_id].tasks
           THEN Goto(c, IF th.op = "log_time" THEN "read_actual" ELSE "read_status", 0, "")
           ELSE Finish(c, NotFound)

\* task.actual_hours += hours
ReadActualHours(c) ==
    LET th == threads[c]
    IN  /\ th.pc = "read_actual"
        /\ Goto(c, "write_actual", projects[th.project_id].tasks[th.task_id].actual_hours, "")
        /\ UNCHANGED <<projects, entered>>

WriteActualHours(c) ==
    LET th == threads[c]
    IN  /\ th.pc = "write_actual"
        /\ Write([projects EXCEPT ![th.project_id].tasks[th.task_id].actual_hours =
                                      Added(th.value, th.hours)])
        /\ Goto(c, "read_spent", 0, "")

\* self.projects[project_id].spent_hours += hours
ReadSpentHours(c) ==
    LET th == threads[c]
    IN  /\ th.pc = "read_spent"
        /\ Goto(c, "write_spent", projects[th.project_id].spent_hours, "")
        /\ UNCHANGED <<projects, entered>>

WriteSpentHours(c) ==
    LET th == threads[c]
    IN  /\ th.pc = "write_spent"
        /\ Write([projects EXCEPT ![th.project_id].spent_hours = Added(th.value, th.hours)])
        /\ Finish(c, OK)

\* old_status = task.status
ReadOldStatus(c) ==
    LET th == threads[c]
    IN  /\ th.pc = "read_status"
        /\ Goto(c, "write_status", 0, projects[th.project_id].tasks[th.task_id].status)
        /\ UNCHANGED <<projects, entered>>

\* task.status = status
WriteStatus(c) ==
    LET th == threads[c]
    IN  /\ th.pc = "write_status"
        /\ Write([projects EXCEPT ![th.project_id].tasks[th.task_id].status = th.status])
        /\ Goto(c, "stamp", 0, th.old_status)

\* if status == COMPLETED and old_status != COMPLETED: task.completion_date = now
StampCompletionDate(c) ==
    LET th == threads[c]
    IN  /\ th.pc = "stamp"
        /\ IF th.status = COMPLETED /\ th.old_status # COMPLETED
           THEN Write([projects EXCEPT
                          ![th.project_id].tasks[th.task_id].completion_date = now])
           ELSE UNCHANGED <<projects, entered>>
        /\ Goto(c, "scan", 1, "")

\* _all_tasks_completed: all(...) reads the status of one task after the
\* other (value is the position reached) and stops at the first that is not
\* COMPLETED.
ScanTasks(c) ==
    LET th == threads[c]
        project == projects[th.project_id]
    IN  /\ th.pc = "scan"
        /\ UNCHANGED <<projects, entered>>
        /\ IF project.order = <<>>
           THEN Finish(c, OK)
           ELSE IF th.value > Len(project.order)
           THEN Goto(c, "write_project_status", 0, "")
           ELSE IF project.tasks[project.order[th.value]].status = COMPLETED
           THEN Goto(c, "scan", th.value + 1, "")
           ELSE Finish(c, OK)

\* self.projects[project_id].status = ProjectStatus.COMPLETED
WriteProjectStatus(c) ==
    LET th == threads[c]
    IN  /\ th.pc = "write_project_status"
        /\ Write([projects EXCEPT ![th.project_id].status = COMPLETED])
        /\ Goto(c, "write_project_date", 0, "")

\* self.projects[project_id].completion_date = datetime.now()
WriteProjectDate(c) ==
    LET th == threads[c]
    IN  /\ th.pc = "write_project_date"
        /\ Write([projects EXCEPT ![th.project_id].completion_date = now])
        /\ Finish(c, OK)

\* ------------------------------------------------------- specifications
\* The task lifecycle: projects and tasks are created, statuses set, time passes.
Next ==
    \/ CreateProject(MaxProjects)
    \/ \E p \in DOMAIN projects : AddTask(MaxTasks, p, 1, {})
    \/ \E p \in DOMAIN projects : \E t \in DOMAIN projects[p].tasks : \E s \in TaskStatus :
          UpdateTaskStatus(p, t, s)
    \/ Tick

Spec == Init /\ [][Next]_vars

\* Time logging: hours, also negative ones, are logged on tasks in any status.
LogHours == {-1, 1, 2}

NextHours ==
    \/ CreateProject(MaxProjects)
    \/ \E p \in DOMAIN projects : AddTask(MaxTasks, p, 1, {})
    \/ \E p \in DOMAIN projects : \E t \in DOMAIN projects[p].tasks :
          \E s \in {IN_PROGRESS, COMPLETED} : UpdateTaskStatus(p, t, s)
    \/ \E p \in DOMAIN projects : \E t \in DOMAIN projects[p].tasks : \E h \in LogHours :
          LogTime(p, t, h)

SpecHours == Init /\ [][NextHours]_vars

\* Availability: tasks depend on any ids a caller may name (0 is never a task,
\* and an id may name a task of another project or one not created yet).
NextAvail ==
    \/ CreateProject(MaxProjects)
    \/ \E p \in DOMAIN projects : \E deps \in SUBSET (0..MaxTasks) : AddTask(MaxTasks, p, 1, deps)
    \/ \E p \in DOMAIN projects : \E t \in DOMAIN projects[p].tasks : \E s \in TaskStatus :
          UpdateTaskStatus(p, t, s)
    \/ \E p \in DOMAIN projects : GetAvailableTasks(p)

SpecAvail == Init /\ [][NextAvail]_vars

\* The critical path of one project whose tasks name any dependencies.
EstimatedHours == {0, 2, 3, 5}

NextPath ==
    \/ CreateProject(1)
    \/ \E p \in DOMAIN projects : \E e \in EstimatedHours : \E deps \in SUBSET (1..MaxPathTasks) :
          AddTask(MaxPathTasks, p, e, deps)
    \/ \E p \in DOMAIN projects : GetCriticalPath(p)

SpecPath == Init /\ [][NextPath]_vars

\* Every operation that targets a project or a task, called with ids a caller
\* may pass: the generated ones and 0, which never is.
CallerProjectIds == 0..MaxProjects
CallerTaskIds == 0..MaxTasks

NextApi ==
    \/ CreateProject(MaxProjects)
    \/ \E p \in CallerProjectIds : AddTask(MaxTasks, p, 1, {1})
    \/ \E p \in CallerProjectIds, t \in CallerTaskIds : \E s \in {IN_PROGRESS, COMPLETED} :
          UpdateTaskStatus(p, t, s)
    \/ \E p \in CallerProjectIds, t \in CallerTaskIds : LogTime(p, t, MaxHours)
    \/ \E p \in CallerProjectIds : GetProjectMetrics(p)
    \/ \E p \in CallerProjectIds, t \in CallerTaskIds : GetTaskDependencies(p, t)
    \/ \E p \in CallerProjectIds : GetAvailableTasks(p)
    \/ \E p \in CallerProjectIds : GetCriticalPath(p)
    \/ GetResourceUtilization
    \/ GetDashboardData

SpecApi == Init /\ [][NextApi]_vars

\* Tasks of 4 and 6 estimated hours are assigned to lists of the agents X and
\* Y, a list naming an agent twice among them; the utilization is read.
ResourceHours == {4, 6}
AgentLists == {<<>>, <<"X">>, <<"Y", "X">>, <<"X", "X">>}

NextResources ==
    \/ CreateProject(MaxProjects)
    \/ \E p \in DOMAIN projects, h \in ResourceHours, agents \in AgentLists :
          AddTaskWith(MaxTasks, p, "task", h, {}, agents, None)
    \/ GetResourceUtilization

SpecResources == Init /\ [][NextResources]_vars

\* Creation with names and titles that are empty or not, for known and
\* unknown projects, followed by work on what was created.
Names == {"", "project"}
Titles == {"", "task"}

NextCreate ==
    \/ \E name \in Names : CreateProjectWith(MaxProjects, name, None, None)
    \/ \E p \in CallerProjectIds, title \in Titles :
          AddTaskWith(MaxTasks, p, title, 1, {}, <<>>, None)
    \/ \E p \in DOMAIN projects : \E t \in DOMAIN projects[p].tasks :
          UpdateTaskStatus(p, t, COMPLETED)
    \/ \E p \in DOMAIN projects : \E t \in DOMAIN projects[p].tasks : LogTime(p, t, 1)

SpecCreate == Init /\ [][NextCreate]_vars

\* One project with or without a start date and a due date (the due date
\* after, at or before the start), tasks with or without a due date, the
\* clock moving, and the metrics read.
StartDates == {None, 0, 1}
DueDates == {None, 0, 2, 10}
TaskDueDates == {None, 1}

NextMetrics ==
    \/ \E start_date \in StartDates, due_date \in DueDates :
          CreateProjectWith(1, "project", start_date, due_date)
    \/ \E p \in DOMAIN projects, due_date \in TaskDueDates :
          AddTaskWith(MaxTasks, p, "task", 5, {}, <<>>, due_date)
    \/ \E p \in DOMAIN projects : \E t \in DOMAIN projects[p].tasks :
          \E s \in {BLOCKED, COMPLETED} : UpdateTaskStatus(p, t, s)
    \/ \E p \in DOMAIN projects : GetProjectMetrics(p)
    \/ Tick

SpecMetrics == Init /\ [][NextMetrics]_vars

\* Two callers, each making one call of log_time or update_task_status on a
\* task of the project, their steps interleaved; with or without the lock
\* discipline. The project and its tasks are created before the calls.
InitThreads == \E locking \in BOOLEAN : InitWith(locking)

NextThreads ==
    \/ AllIdle /\ CreateProject(1)
    \/ AllIdle /\ \E p \in DOMAIN projects : AddTask(MaxTasks, p, 1, {})
    \/ \E c \in Callers, p \in DOMAIN projects : \E t \in DOMAIN projects[p].tasks :
          \/ \E h \in 1..MaxHours : Begin(c, "log_time", p, t, h, "")
          \/ \E s \in {IN_PROGRESS, COMPLETED} : Begin(c, "update_task_status", p, t, 0, s)
    \/ \E c \in Callers : CheckIds(c)
    \/ \E c \in Callers : ReadActualHours(c)
    \/ \E c \in Callers : WriteActualHours(c)
    \/ \E c \in Callers : ReadSpentHours(c)
    \/ \E c \in Callers : WriteSpentHours(c)
    \/ \E c \in Callers : ReadOldStatus(c)
    \/ \E c \in Callers : WriteStatus(c)
    \/ \E c \in Callers : StampCompletionDate(c)
    \/ \E c \in Callers : ScanTasks(c)
    \/ \E c \in Callers : WriteProjectStatus(c)
    \/ \E c \in Callers : WriteProjectDate(c)

SpecThreads == InitThreads /\ [][NextThreads]_vars

\* A worker that schedules by availability: it asks get_available_tasks for
\* the tasks of a project, picks any of them and sets it COMPLETED. No other
\* caller changes a status. The project was planned before the worker
\* starts: one project whose tasks name any dependencies.
RECURSIVE AddTasks(_, _, _, _)
AddTasks(ps, project_id, dependencies, i) ==
    IF i > Len(dependencies)
    THEN ps
    ELSE AddTasks(add_task_to_project(ps, project_id, "task", 1, dependencies[i],
                                      <<>>, None).projects,
                  project_id, dependencies, i + 1)

Planned(dependencies) ==
    LET r == create_project(<<>>, "project", None, None, 0)
    IN  AddTasks(r.projects, r.value, dependencies, 1)

InitWorker ==
    /\ \E n \in 0..MaxPathTasks : \E dependencies \in [1..n -> SUBSET (1..MaxPathTasks)] :
          projects = Planned(dependencies)
    /\ now = 0
    /\ call = NoCall
    /\ ret = [outcome |-> OK, value |-> <<>>]
    /\ entered = [id \in AllTaskIds(projects) |-> None]
    /\ threads = [c \in Callers |-> Idle]
    /\ sched = [locking |-> FALSE, lock |-> [p \in 1..MaxProjects |-> 0], base |-> <<>>]

Worker(project_id, task_id) ==
    LET available_tasks == get_available_tasks(projects, project_id).value
    IN  /\ \E i \in DOMAIN available_tasks : available_tasks[i].id = task_id
        /\ UpdateTaskStatus(project_id, task_id, COMPLETED)

NextWorker == \E p \in DOMAIN projects : \E t \in DOMAIN projects[p].tasks : Worker(p, t)

\* The worker keeps running: it is not forever idle while a task is available.
SpecWorker == InitWorker /\ [][NextWorker]_vars /\ WF_vars(NextWorker)

\* ================================================================ claims
\* What the claims speak of, stated apart from the operations above.
EveryTaskCompleted(project) ==
    /\ DOMAIN project.tasks # {}
    /\ \A t \in DOMAIN project.tasks : project.tasks[t].status = COMPLETED
SumActualHours(project) ==
    SumSeq([i \in DOMAIN project.order |-> project.tasks[project.order[i]].actual_hours])
Called(op) == call.op = op /\ ret.outcome = OK

\* C1: in every reachable state every project's spent_hours equals the sum of
\* actual_hours over the tasks it owns, whatever hours log_time was given.
C1_SpentHoursIsSum ==
    \A p \in DOMAIN projects : projects[p].spent_hours = SumActualHours(projects[p])

\* C1 witness: a negative log_time has just succeeded on a project with two
\* tasks that both carry logged hours.
C1_Witness ==
    /\ Called("log_time") /\ call.hours < 0
    /\ \E p \in DOMAIN projects :
          /\ call.project_id = p
          /\ Cardinality(DOMAIN projects[p].tasks) >= 2
          /\ \A t \in DOMAIN projects[p].tasks : projects[p].tasks[t].actual_hours # 0

\* C2 as claimed: a project is COMPLETED with a completion_date exactly when its
\* task set is non-empty and every owned task is COMPLETED.
C2_Original ==
    \A p \in DOMAIN projects :
        (projects[p].status = COMPLETED /\ projects[p].completion_date # None)
            <=> EveryTaskCompleted(projects[p])

\* C2 as amended: a non-empty project all of whose tasks are COMPLETED is
\* COMPLETED with a completion_date; a project without tasks is never COMPLETED;
\* and a project turns COMPLETED only in a step after which all its tasks are
\* COMPLETED (it then stays COMPLETED when a task is added or leaves COMPLETED).
C2_CompletedInv ==
    \A p \in DOMAIN projects :
        /\ EveryTaskCompleted(projects[p]) =>
              projects[p].status = COMPLETED /\ projects[p].completion_date # None
        /\ DOMAIN projects[p].tasks = {} => projects[p].status # COMPLETED
C2_CompletedStep ==
    \A p \in DOMAIN projects :
        projects[p].status # COMPLETED /\ projects'[p].status = COMPLETED
            => EveryTaskCompleted(projects'[p]) /\ projects'[p].completion_date = now
C2_Amended == [](C2_CompletedInv) /\ [][C2_CompletedStep]_vars

\* C2 witness: update_task_status has just completed the last open task of a
\* two-task project.
C2_Witness ==
    /\ Called("update_task_status")
    /\ \E p \in DOMAIN projects :
          /\ call.project_id = p
          /\ Cardinality(DOMAIN projects[p].tasks) >= 2
          /\ EveryTaskCompleted(projects[p])
          /\ projects[p].status = COMPLETED
          /\ projects[p].completion_date = now

\* C3 as claimed: a task's completion_date is non-null exactly when its status
\* is COMPLETED, and then holds the time of its latest step into COMPLETED.
C3_Original ==
    \A p \in DOMAIN projects : \A t \in DOMAIN projects[p].tasks :
        LET task == projects[p].tasks[t]
        IN  /\ task.completion_date # None <=> task.status = COMPLETED
            /\ task.completion_date # None => task.completion_date = entered[t]

\* C3 as amended: a COMPLETED task has a completion_date; a completion_date is
\* non-null exactly when the task has entered COMPLETED at some time, and holds
\* the time of the latest step from a non-COMPLETED status into COMPLETED (it
\* is kept when the task leaves COMPLETED again).
C3_Amended ==
    \A p \in DOMAIN projects : \A t \in DOMAIN projects[p].tasks :
        LET task == projects[p].tasks[t]
        IN  /\ task.status = COMPLETED => task.completion_date # None
            /\ task.completion_date = entered[t]

\* C3 witness: update_task_status has just moved a task out of COMPLETED, and
\* the task keeps the completion_date of its latest step into COMPLETED.
C3_Witness ==
    /\ Called("update_task_status")
    /\ \E p \in DOMAIN projects : \E t \in DOMAIN projects[p].tasks :
          /\ call.project_id = p /\ call.task_id = t
          /\ projects[p].tasks[t].status # COMPLETED
          /\ projects[p].tasks[t].completion_date # None
          /\ projects[p].tasks[t].completion_date < now

\* C4: update_task_status(p, t, COMPLETED) on a task that is COMPLETED leaves
\* its completion_date as first stamped, at whatever later time it is called.
C4_Step ==
    \A p \in DOMAIN projects : \A t \in DOMAIN projects[p].tasks :
        (/\ call'.op = "update_task_status" /\ ret'.outcome = OK
         /\ call'.project_id = p /\ call'.task_id = t
         /\ projects[p].tasks[t].status = COMPLETED
         /\ projects'[p].tasks[t].status = COMPLETED)
        => /\ projects'[p].tasks[t].completion_date = projects[p].tasks[t].completion_date
           /\ projects'[p].tasks[t].completion_date = entered'[t]
C4_CompletedIdempotent == [][C4_Step]_vars

\* C4 witness: the last call set a task to COMPLETED at a time later than its
\* completion_date, so the task was COMPLETED already.
C4_Witness ==
    /\ Called("update_task_status")
    /\ \E p \in DOMAIN projects : \E t \in DOMAIN projects[p].tasks :
          /\ call.project_id = p /\ call.task_id = t
          /\ projects[p].tasks[t].status = COMPLETED
          /\ projects[p].tasks[t].completion_date # None
          /\ projects[p].tasks[t].completion_date < now

\* C9: log_time with existing ids and hours < 0 fails with a validation error
\* and leaves every hour counter and all other state unchanged.
ValidationError == "ValidationError"
C9_Step ==
    (/\ call'.op = "log_time" /\ call'.hours < 0
     /\ call'.project_id \in DOMAIN projects
     /\ call'.task_id \in DOMAIN projects[call'.project_id].tasks)
    => ret'.outcome = ValidationError /\ projects' = projects
C9_NegativeHoursRejected == [][C9_Step]_vars

\* C5: get_available_tasks returns exactly the NOT_STARTED tasks each of whose
\* dependency ids names no task of the project or names a COMPLETED task.
Ids(tasks) == {tasks[i].id : i \in DOMAIN tasks}
Satisfied(project, dep_id) ==
    dep_id \notin DOMAIN project.tasks \/ project.tasks[dep_id].status = COMPLETED
AvailableIds(project) ==
    {t \in DOMAIN project.tasks :
        /\ project.tasks[t].status = NOT_STARTED
        /\ \A dep_id \in project.tasks[t].dependencies : Satisfied(project, dep_id)}
C5_AvailableTasks ==
    \A p \in DOMAIN projects :
        LET r == get_available_tasks(projects, p)
        IN  /\ r.outcome = OK
            /\ Ids(r.value) = AvailableIds(projects[p])
            /\ Len(r.value) = Cardinality(AvailableIds(projects[p]))
            /\ \A i \in DOMAIN r.value : r.value[i] = projects[p].tasks[r.value[i].id]
            /\ Called("get_available_tasks") /\ call.project_id = p => ret.value = r.value

\* C5 witness: get_available_tasks has just returned a task that depends on a
\* COMPLETED task of the project and on an id that names no task of it.
C5_Witness ==
    /\ Called("get_available_tasks")
    /\ \E i \in DOMAIN ret.value :
          LET project == projects[call.project_id]
          IN  /\ \E d \in ret.value[i].dependencies : d \notin DOMAIN project.tasks
              /\ \E d \in ret.value[i].dependencies :
                    d \in DOMAIN project.tasks /\ project.tasks[d].status = COMPLETED

\* C6: at a branch point the chain continues through the direct dependent
\* whose sub-chain has the greatest total estimated_hours: for a task A with
\* two or more dependents of which C's sub-chain total exceeds every other's,
\* the chain from A is A followed by C's sub-chain (for a start task A, C's
\* own chain).
Dependents(project, a) == {t \in DOMAIN project.tasks : a \in project.tasks[t].dependencies}
Hours(chain) == SumSeq([i \in DOMAIN chain |-> chain[i].estimated_hours])
C6_BranchChoice ==
    \A p \in DOMAIN projects : \A a \in DOMAIN projects[p].tasks :
        LET project == projects[p]
            Sub(x) == _get_task_chain(project, x, {a})
        IN  \A c \in Dependents(project, a) :
                (/\ Cardinality(Dependents(project, a)) >= 2
                 /\ \A b \in Dependents(project, a) \ {c} : Hours(Sub(c)) > Hours(Sub(b)))
                => /\ _get_task_chain(project, a, {}) = <<project.tasks[a]>> \o Sub(c)
                   /\ project.tasks[a].dependencies = {} =>
                         /\ Sub(c) = _get_task_chain(project, c, {})
                         /\ Sub(c) # <<>> /\ Sub(c)[1] = project.tasks[c]

\* C6 witness: A(2h), B(3h, dep A), C(5h, dep A): get_critical_path has just
\* returned [A, C].
C6_Witness ==
    /\ Called("get_critical_path")
    /\ LET project == projects[call.project_id]
       IN  /\ project.order = <<1, 2, 3>>
           /\ project.tasks[1].estimated_hours = 2 /\ project.tasks[1].dependencies = {}
           /\ project.tasks[2].estimated_hours = 3 /\ project.tasks[2].dependencies = {1}
           /\ project.tasks[3].estimated_hours = 5 /\ project.tasks[3].dependencies = {1}
           /\ ret.value = <<project.tasks[1], project.tasks[3]>>

\* C7: when the project has a task without dependencies, get_critical_path
\* returns a chain that begins with a start task and whose total
\* estimated_hours is the greatest among the start tasks' chains: the chain of
\* the first start task, in insertion order, that reaches that total.
StartIds(project) == SelectSeq(project.order, LAMBDA t : project.tasks[t].dependencies = {})
ChainFrom(project, t) == _get_task_chain(project, t, {})
C7_LongestStartChain ==
    Called("get_critical_path") =>
        LET project == projects[call.project_id]
            starts == StartIds(project)
        IN  starts # <<>> =>
                \E i \in DOMAIN starts :
                    /\ ret.value = ChainFrom(project, starts[i])
                    /\ ret.value # <<>> /\ ret.value[1] = project.tasks[starts[i]]
                    /\ \A j \in DOMAIN starts :
                          Hours(ChainFrom(project, starts[j])) <= Hours(ret.value)
                    /\ \A j \in 1..(i - 1) :
                          Hours(ChainFrom(project, starts[j])) < Hours(ret.value)

\* C8: when every task of the project has a non-empty dependency list (also
\* when the tasks form cycles only, and when there are no tasks at all),
\* get_critical_path returns the empty sequence.
C8_NoStartTask ==
    \A p \in DOMAIN projects :
        (\A t \in DOMAIN projects[p].tasks : projects[p].tasks[t].dependencies # {})
        => /\ get_critical_path(projects, p) = Return(projects, <<>>)
           /\ Called("get_critical_path") /\ call.project_id = p => ret.value = <<>>

\* C8 witness: get_critical_path has just returned for a project whose two
\* tasks depend on each other.
C8_Witness ==
    /\ Called("get_critical_path")
    /\ ret.value = <<>>
    /\ LET project == projects[call.project_id]
       IN  \E a, b \in DOMAIN project.tasks :
              /\ a # b
              /\ a \in project.tasks[b].dependencies
              /\ b \in project.tasks[a].dependencies
              /\ \A t \in DOMAIN project.tasks : project.tasks[t].dependencies # {}

\* C10: an operation that targets a project fails with the not-found error
\* when the project id is unknown, update_task_status, log_time and
\* get_task_dependencies also when the task id is not in that project, and
\* the failed call changes nothing: no project and no task is created.
ProjectOps == {"add_task_to_project", "update_task_status", "log_time", "get_project_metrics",
               "get_task_dependencies", "get_available_tasks", "get_critical_path"}
TaskOps == {"update_task_status", "log_time", "get_task_dependencies"}
UnknownTarget(c) ==
    \/ c.op \in ProjectOps /\ c.project_id \notin DOMAIN projects
    \/ /\ c.op \in TaskOps
       /\ c.project_id \in DOMAIN projects
       /\ c.task_id \notin DOMAIN projects[c.project_id].tasks
C10_Step ==
    /\ UnknownTarget(call') => ret'.outcome = NotFound /\ projects' = projects
    /\ ret'.outcome = NotFound => UnknownTarget(call') /\ projects' = projects
C10_UnknownIdsRejected == [][C10_Step]_vars

\* C10 witness: update_task_status has just failed on a known project that has
\* tasks, called with the id of another project's task.
C10_Witness ==
    /\ ret.outcome = NotFound
    /\ call.op = "update_task_status"
    /\ call.project_id \in DOMAIN projects
    /\ call.task_id \in AllTaskIds(projects)
    /\ call.task_id \notin DOMAIN projects[call.project_id].tasks
    /\ projects[call.project_id].tasks # <<>>

\* ------------------------------------------------------------------- C11
Agents == {"X", "Y"}
AssignedTo(task, agent_id) ==
    \E i \in DOMAIN task.assigned_agents : task.assigned_agents[i] = agent_id
\* The estimated hours of the tasks the agent is assigned to, each task once.
AssignedHours(agent_id) ==
    LET ids == ProjectIds(DOMAIN projects)
    IN  SumSeq([i \in DOMAIN ids |->
                   SumSeq([j \in DOMAIN projects[ids[i]].order |->
                              LET task == projects[ids[i]].tasks[projects[ids[i]].order[j]]
                              IN  IF AssignedTo(task, agent_id)
                                  THEN task.estimated_hours ELSE 0])])
OwningProjects(agent_id) ==
    {p \in DOMAIN projects :
        \E t \in DOMAIN projects[p].tasks : AssignedTo(projects[p].tasks[t], agent_id)}

\* C11: for every agent X the entry of get_resource_utilization() has as
\* total_hours the sum of estimated_hours over the tasks X is assigned to,
\* each task counted once, and as projects exactly the ids of the projects
\* owning such a task, each once; an agent assigned to no task has no entry.
C11_ResourceUtilization ==
    Called("get_resource_utilization") =>
        \A agent_id \in Agents :
            IF OwningProjects(agent_id) = {}
            THEN agent_id \notin DOMAIN ret.value
            ELSE /\ agent_id \in DOMAIN ret.value
                 /\ ret.value[agent_id].total_hours = AssignedHours(agent_id)
                 /\ {ret.value[agent_id].projects[i] : i \in DOMAIN ret.value[agent_id].projects}
                        = OwningProjects(agent_id)
                 /\ Len(ret.value[agent_id].projects) = Cardinality(OwningProjects(agent_id))

\* ------------------------------------------------------------------- C12
CompletedCount(project) ==
    Cardinality({t \in DOMAIN project.tasks : project.tasks[t].status = COMPLETED})
TotalCount(project) == Cardinality(DOMAIN project.tasks)
\* (t - start) / (due - start) * 100 clamped to [0, 100], for due # start.
ClampedElapsed(project, t) ==
    LET total == project.due_date - project.start_date
        elapsed == t - project.start_date
    IN  IF total > 0
        THEN Frac(Max(0, Min(100 * total, 100 * elapsed)), total)
        ELSE Frac(Max(0, Min(100 * (0 - total), 100 * (0 - elapsed))), 0 - total)
\* percentage >= 0.9 * expected, both as fractions.
WithinSlack(percentage, expected) ==
    10 * percentage.num * expected.den >= 9 * expected.num * percentage.den
\* The project of the claim's example: started now, due 10 days later, one
\* task, not started.
StartedNowDueInTen(project) ==
    /\ project.start_date = now
    /\ project.due_date = now + 10
    /\ TotalCount(project) = 1
    /\ \A t \in DOMAIN project.tasks : project.tasks[t].status = NOT_STARTED
ExampleMetrics(metrics) ==
    /\ metrics.completion_percentage.num = 0
    /\ metrics.tasks_total = 1
    /\ metrics.is_on_schedule

ExpectedOfDated(project, t) ==
    IF project.start_date = None \/ project.due_date = None THEN Frac(0, 1)
    ELSE IF project.due_date <= project.start_date THEN Frac(100, 1)
    ELSE ClampedElapsed(project, t)

CountTasks(project, statuses) ==
    Cardinality({t \in DOMAIN project.tasks : project.tasks[t].status \in statuses})
Overdue(project, t) ==
    {id \in DOMAIN project.tasks :
        /\ project.tasks[id].due_date # None
        /\ project.tasks[id].due_date < t
        /\ project.tasks[id].status # COMPLETED}

\* C13: get_project_metrics reports tasks_total as the number of tasks,
\* tasks_completed as the number of COMPLETED ones, completion_percentage as
\* completed / total * 100 (0 for a project without tasks), blocked_tasks as
\* the number of BLOCKED ones and overdue_tasks as the number of tasks with
\* a due_date earlier than now whose status is not COMPLETED.
C13_Metrics ==
    Called("get_project_metrics") =>
        LET project == projects[call.project_id]
            metrics == ret.value
        IN  /\ metrics.tasks_total = TotalCount(project)
            /\ metrics.tasks_completed = CountTasks(project, {COMPLETED})
            /\ IF TotalCount(project) = 0
               THEN metrics.completion_percentage.num = 0
               ELSE metrics.completion_percentage.num * TotalCount(project)
                        = 100 * CountTasks(project, {COMPLETED})
                              * metrics.completion_percentage.den
            /\ metrics.blocked_tasks = CountTasks(project, {BLOCKED})
            /\ metrics.overdue_tasks = Cardinality(Overdue(project, now))

\* Metrics were read of a project with one completed task past its due date
\* and one blocked task past its due date.
C13_Witness ==
    /\ Called("get_project_metrics")
    /\ ret.value.tasks_total = 2
    /\ ret.value.tasks_completed = 1
    /\ ret.value.blocked_tasks = 1
    /\ ret.value.overdue_tasks = 1
    /\ \A t \in DOMAIN projects[call.project_id].tasks :
          /\ projects[call.project_id].tasks[t].due_date # None
          /\ projects[call.project_id].tasks[t].due_date < now

\* ------------------------------------------------------------------- C14
\* C14: add_task_to_project on a COMPLETED project adds the task in status
\* NOT_STARTED and leaves the project's status COMPLETED and its
\* completion_date as it was: the project is not reopened by the call.
C14_Step ==
    \A p \in DOMAIN projects :
        (/\ call'.op = "add_task_to_project" /\ ret'.outcome = OK
         /\ call'.project_id = p
         /\ projects[p].status = COMPLETED)
        => /\ ret'.value \in DOMAIN projects'[p].tasks \ DOMAIN projects[p].tasks
           /\ projects'[p].tasks[ret'.value].status = NOT_STARTED
           /\ projects'[p].status = COMPLETED
           /\ projects'[p].completion_date = projects[p].completion_date
           /\ projects'[p].completion_date # None
C14_AddTaskToCompleted == [][C14_Step]_vars

\* The last call added a task to a project that is COMPLETED.
C14_Witness ==
    /\ Called("add_task_to_project")
    /\ projects[call.project_id].status = COMPLETED
    /\ projects[call.project_id].tasks[ret.value].status = NOT_STARTED
    /\ \E t \in DOMAIN projects[call.project_id].tasks :
          projects[call.project_id].tasks[t].status = COMPLETED

\* ------------------------------------------------------------------- C15
\* C15: update_task_status on an existing task succeeds and leaves the task
\* in the requested status for every pair of current and requested status,
\* the current status COMPLETED or CANCELLED and the requested status equal
\* to the current one included.
C15_EveryTransitionApplied ==
    \A p \in DOMAIN projects : \A t \in DOMAIN projects[p].tasks : \A status \in TaskStatus :
        LET r == update_task_status(projects, p, t, status, now)
        IN  /\ r.outcome = OK
            /\ r.projects[p].tasks[t].status = status

\* The last call put back to NOT_STARTED a task that has been COMPLETED, while
\* another task is CANCELLED.
C15_Witness ==
    /\ Called("update_task_status")
    /\ \E p \in DOMAIN projects :
          /\ call.task_id \in DOMAIN projects[p].tasks
          /\ projects[p].tasks[call.task_id].status = NOT_STARTED
          /\ projects[p].tasks[call.task_id].completion_date # None
    /\ \E p \in DOMAIN projects : \E t \in DOMAIN projects[p].tasks :
          projects[p].tasks[t].status = CANCELLED

\* ------------------------------------------------------------------- C16
Terminal == {COMPLETED, CANCELLED}
LegalEdges ==
    {<<NOT_STARTED, IN_PROGRESS>>, <<IN_PROGRESS, COMPLETED>>,
     <<NOT_STARTED, BLOCKED>>, <<IN_PROGRESS, BLOCKED>>, <<BLOCKED, IN_PROGRESS>>}
        \cup {<<s, CANCELLED>> : s \in TaskStatus \ Terminal}

\* C16 as stated: a task in COMPLETED or CANCELLED keeps that status in every
\* later state, and every change of a task's status follows one of the edges
\* NOT_STARTED -> IN_PROGRESS, IN_PROGRESS -> COMPLETED, NOT_STARTED or
\* IN_PROGRESS -> BLOCKED, BLOCKED -> IN_PROGRESS, non-terminal -> CANCELLED.
C16_OriginalStep ==
    \A p \in DOMAIN projects : \A t \in DOMAIN projects[p].tasks :
        /\ projects[p].tasks[t].status \in Terminal
               => projects'[p].tasks[t].status = projects[p].tasks[t].status
        /\ projects'[p].tasks[t].status # projects[p].tasks[t].status
               => <<projects[p].tasks[t].status, projects'[p].tasks[t].status>> \in LegalEdges
C16_Original == [][C16_OriginalStep]_vars

\* C16 amended: no status is terminal and no edge is excluded; a task's
\* status changes only in a successful update_task_status call on that task,
\* and every other step leaves the status of every task as it was.
C16_AmendedStep ==
    \A p \in DOMAIN projects : \A t \in DOMAIN projects[p].tasks :
        /\ t \in DOMAIN projects'[p].tasks
        /\ projects'[p].tasks[t].status # projects[p].tasks[t].status
               => /\ call'.op = "update_task_status" /\ ret'.outcome = OK
                  /\ call'.project_id = p /\ call'.task_id = t
C16_Amended == [][C16_AmendedStep]_vars

\* The last call moved a task that has been COMPLETED to BLOCKED, an edge
\* out of a terminal status.
C16_Witness ==
    /\ Called("update_task_status")
    /\ \E p \in DOMAIN projects :
          /\ call.task_id \in DOMAIN projects[p].tasks
          /\ projects[p].tasks[call.task_id].status = BLOCKED
          /\ projects[p].tasks[call.task_id].completion_date = now
          /\ entered[call.task_id] = now
          /\ projects[p].status = COMPLETED

\* ------------------------------------------------------------------- C17
\* The projects with the two hour counters set as log_time(p, t, hours) sets
\* them.
WithLoggedHours(ps, p, t, hours) ==
    [ps EXCEPT ![p].tasks[t].actual_hours = @ + hours, ![p].spent_hours = @ + hours]
HoursUnchanged ==
    \A p \in DOMAIN projects :
        /\ p \in DOMAIN projects'
        /\ projects'[p].spent_hours = projects[p].spent_hours
        /\ \A t \in DOMAIN projects[p].tasks :
              /\ t \in DOMAIN projects'[p].tasks
              /\ projects'[p].tasks[t].actual_hours = projects[p].tasks[t].actual_hours

\* C17: log_time is the only operation that changes an hour counter:
\* create_project, add_task_to_project, update_task_status and every get_*
\* leave spent_hours and actual_hours of every existing project and task as
\* they were, and a successful log_time(p, t, h) changes exactly the
\* actual_hours of t and the spent_hours of p, each by +h.
C17_Step ==
    IF call'.op = "log_time" /\ ret'.outcome = OK
    THEN projects' = WithLoggedHours(projects, call'.project_id, call'.task_id, call'.hours)
    ELSE HoursUnchanged
C17_OnlyLogTimeChangesHours == [][C17_Step]_vars

\* log_time has just booked MaxHours on one of two tasks of a project, the
\* other task of which is completed.
C17_Witness ==
    /\ Called("log_time")
    /\ call.hours = MaxHours
    /\ projects[call.project_id].spent_hours = MaxHours
    /\ projects[call.project_id].tasks[call.task_id].actual_hours = MaxHours
    /\ \E t \in DOMAIN projects[call.project_id].tasks :
          /\ t # call.task_id
          /\ projects[call.project_id].tasks[t].actual_hours = 0
          /\ projects[call.project_id].tasks[t].status = COMPLETED

\* ------------------------------------------------------------------- C18
\* C18: the actual_hours of every task and the spent_hours of every project
\* are non-negative and never decrease, whatever hours log_time is given.
C18_Step ==
    \A p \in DOMAIN projects :
        /\ projects'[p].spent_hours >= projects[p].spent_hours
        /\ projects'[p].spent_hours >= 0
        /\ \A t \in DOMAIN projects[p].tasks :
              /\ projects'[p].tasks[t].actual_hours >= projects[p].tasks[t].actual_hours
              /\ projects'[p].tasks[t].actual_hours >= 0
C18_HoursNeverDecrease == [][C18_Step]_vars

\* ------------------------------------------------------------------- C19
ReadOps == {"get_project_metrics", "get_task_dependencies", "get_available_tasks",
            "get_critical_path", "get_resource_utilization", "get_dashboard_data"}

\* C19: a call of get_project_metrics, get_task_dependencies,
\* get_available_tasks, get_critical_path, get_resource_utilization or
\* get_dashboard_data leaves the whole state (projects, tasks, every field)
\* as it was, whether the call returns or fails.
C19_Step == call'.op \in ReadOps => projects' = projects /\ now' = now
C19_ReadsChangeNothing == [][C19_Step]_vars

\* The dashboard was read of two projects, one of them completed, with a
\* task each that depends on task 1.
C19_Witness ==
    /\ Called("get_dashboard_data")
    /\ ret.value.summary.total_projects = 2
    /\ ret.value.summary.completed_projects = 1
    /\ ret.value.summary.total_tasks = 2
    /\ ret.value.summary.completed_tasks = 1

\* ------------------------------------------------------------------- C20
\* C20: create_project with an empty name and add_task_to_project with an
\* empty title fail with a validation error and create nothing; a creation
\* that succeeds yields an id distinct from all existing ones and an entity in
\* status PLANNING (project) or NOT_STARTED (task) with spent_hours or
\* actual_hours zero.
C20_Step ==
    /\ (call'.op = "create_project" /\ ret'.outcome = OK)
           => /\ ret'.value \notin DOMAIN projects
              /\ DOMAIN projects' = DOMAIN projects \cup {ret'.value}
              /\ projects'[ret'.value].name # ""
              /\ projects'[ret'.value].status = PLANNING
              /\ projects'[ret'.value].spent_hours = 0
    /\ (call'.op = "add_task_to_project" /\ ret'.outcome = OK)
           => /\ ret'.value \notin AllTaskIds(projects)
              /\ DOMAIN projects'[call'.project_id].tasks
                     = DOMAIN projects[call'.project_id].tasks \cup {ret'.value}
              /\ projects'[call'.project_id].tasks[ret'.value].title # ""
              /\ projects'[call'.project_id].tasks[ret'.value].status = NOT_STARTED
              /\ projects'[call'.project_id].tasks[ret'.value].actual_hours = 0
    /\ ret'.outcome = ValidationError => projects' = projects
    /\ (call'.op = "create_project" /\ ret'.outcome # OK) => ret'.outcome = ValidationError
C20_Creation == [][C20_Step]_vars

NoTaskTwice(chain) ==
    \A i, j \in DOMAIN chain : chain[i].id = chain[j].id => i = j

\* C22: get_critical_path returns on every project, also when dependency
\* lists form a cycle that a start task leads into, and the chain it returns
\* (like the chain built from any task) holds no task twice: a task already
\* on the current path is not extended again, so a cycle cuts the chain.
C22_CyclesTruncate ==
    \A p \in DOMAIN projects :
        LET r == get_critical_path(projects, p)
        IN  /\ r.outcome = OK
            /\ NoTaskTwice(r.value)
            /\ Len(r.value) <= Cardinality(DOMAIN projects[p].tasks)
            /\ \A t \in DOMAIN projects[p].tasks :
                  NoTaskTwice(_get_task_chain(projects[p], t, {}))

\* The critical path was read of a project in which the start task 1 leads
\* into the cycle 2 -> 3 -> 2: the chain is 1, 2, 3 and stops there.
C22_Witness ==
    /\ Called("get_critical_path")
    /\ DOMAIN projects[call.project_id].tasks = {1, 2, 3}
    /\ projects[call.project_id].tasks[1].dependencies = {}
    /\ projects[call.project_id].tasks[2].dependencies = {1, 3}
    /\ projects[call.project_id].tasks[3].dependencies = {2}
    /\ Len(ret.value) = 3
    /\ ret.value[1].id = 1 /\ ret.value[2].id = 2 /\ ret.value[3].id = 3

\* ------------------------------------------------------------------- C23
\* What a call does when it runs alone, from entry to return.
Alone(ps, th) ==
    IF th.op = "log_time"
    THEN log_time(ps, th.project_id, th.task_id, th.hours).projects
    ELSE update_task_status(ps, th.project_id, th.task_id, th.status, now).projects
\* The states the calls of the callers in done lead to from ps, run one after
\* the other in some order.
RECURSIVE SerialStates(_, _)
SerialStates(ps, done) ==
    IF done = {} THEN {ps}
    ELSE UNION {SerialStates(Alone(ps, threads[c]), done \ {c}) : c \in done}
Finished == {c \in Callers : threads[c].pc = "done"}
Quiescent == \A c \in Callers : threads[c].pc \in {"idle", "done"}
LoggedHours(p) ==
    SumSeq([c \in Callers |->
               IF threads[c].pc = "done" /\ threads[c].op = "log_time"
                  /\ threads[c].project_id = p
               THEN threads[c].hours ELSE 0])

C24_Step ==
    /\ \A p \in DOMAIN projects' : projects'[p].status \in {PLANNING, COMPLETED}
    /\ \A p \in DOMAIN projects :
          /\ p \in DOMAIN projects'
          /\ projects[p].status = COMPLETED => projects'[p].status = COMPLETED
          /\ projects'[p].status # projects[p].status
                 => /\ projects[p].status = PLANNING
                    /\ projects'[p].status = COMPLETED
                    /\ call'.op = "update_task_status" /\ ret'.outcome = OK
                    /\ call'.project_id = p
C24_ProjectStatus == [][C24_Step]_vars

\* A COMPLETED project after the downgrade of its completed task to
\* IN_PROGRESS and the addition of a second task.
C24_Witness ==
    \E p \in DOMAIN projects :
        /\ projects[p].status = COMPLETED
        /\ Cardinality(DOMAIN projects[p].tasks) = 2
        /\ \A t \in DOMAIN projects[p].tasks : projects[p].tasks[t].status # COMPLETED
        /\ \E t \in DOMAIN projects[p].tasks :
              /\ projects[p].tasks[t].status = IN_PROGRESS
              /\ projects[p].tasks[t].completion_date # None

\* ------------------------------------------------------------------- C25
\* C25: in every reachable state a project's completion_date is non-null if
\* and only if its status is COMPLETED.
C25_DateIffCompleted ==
    \A p \in DOMAIN projects :
        (projects[p].completion_date # None) <=> (projects[p].status = COMPLETED)

\* One project is COMPLETED and dated, the other has a task and is neither.
C25_Witness ==
    /\ \E p \in DOMAIN projects :
          projects[p].status = COMPLETED /\ projects[p].completion_date = now
    /\ \E p \in DOMAIN projects :
          /\ projects[p].status = PLANNING /\ projects[p].completion_date = None
          /\ projects[p].order # <<>>

\* ------------------------------------------------------------------- C26
\* C26: a task whose status is COMPLETED has a non-null completion_date, and
\* no step sets a completion_date that is non-null back to null.
C26_CompletedDated ==
    \A p \in DOMAIN projects : \A t \in DOMAIN projects[p].tasks :
        projects[p].tasks[t].status = COMPLETED => projects[p].tasks[t].completion_date # None
C26_Step ==
    \A p \in DOMAIN projects : \A t \in DOMAIN projects[p].tasks :
        projects[p].tasks[t].completion_date # None
            => /\ p \in DOMAIN projects' /\ t \in DOMAIN projects'[p].tasks
               /\ projects'[p].tasks[t].completion_date # None
C26_DateNeverReset == [](C26_CompletedDated) /\ [][C26_Step]_vars

\* The last call cancelled a task completed at an earlier time: the date
\* of that time is still there.
C26_Witness ==
    /\ Called("update_task_status")
    /\ \E p \in DOMAIN projects :
          /\ call.task_id \in DOMAIN projects[p].tasks
          /\ projects[p].tasks[call.task_id].status = CANCELLED
          /\ projects[p].tasks[call.task_id].completion_date # None
          /\ projects[p].tasks[call.task_id].completion_date < now

\* ------------------------------------------------------------------- C27
\* chain is a path along dependencies in project that begins at a task
\* without dependencies.
IsDependencyPath(project, chain) ==
    /\ \A i \in DOMAIN chain :
          /\ chain[i].id \in DOMAIN project.tasks
          /\ chain[i] = project.tasks[chain[i].id]
    /\ chain # <<>> => chain[1].dependencies = {}
    /\ \A i \in DOMAIN chain : i < Len(chain) => chain[i].id \in chain[i + 1].dependencies

\* C27: every chain get_critical_path returns is a dependency path: its
\* first task, if any, has an empty dependency list, the id of each task is
\* in the dependency list of the task after it, and all its tasks are tasks
\* of the queried project.
C27_DependencyPath ==
    Called("get_critical_path") => IsDependencyPath(projects[call.project_id], ret.value)

\* The chain 2, 1, 3 was returned: task 1 names the task created after it,
\* and task 3 depends on both.
C27_Witness ==
    /\ Called("get_critical_path")
    /\ Len(ret.value) = 3
    /\ ret.value[1].id = 2 /\ ret.value[2].id = 1 /\ ret.value[3].id = 3
    /\ ret.value[2].dependencies = {2}
    /\ ret.value[3].dependencies = {1, 2}

\* ------------------------------------------------------------------- C28
\* The sequences of one to n task ids of the project.
IdSequences(project) ==
    UNION {[1..n -> DOMAIN project.tasks] : n \in 1..Cardinality(DOMAIN project.tasks)}
\* The dependency paths that begin at a dependency-free task, as id sequences.
DependencyPaths(project) ==
    {path \in IdSequences(project) :
        /\ project.tasks[path[1]].dependencies = {}
        /\ \A i \in DOMAIN path :
              i < Len(path) => path[i] \in project.tasks[path[i + 1]].dependencies}
PathHours(project, path) ==
    SumSeq([i \in DOMAIN path |-> project.tasks[path[i]].estimated_hours])
\* Some order of all the tasks puts every task after the tasks it depends on.
Acyclic(project) ==
    \E order \in [1..Cardinality(DOMAIN project.tasks) -> DOMAIN project.tasks] :
        /\ \A t \in DOMAIN project.tasks : \E i \in DOMAIN order : order[i] = t
        /\ \A i \in DOMAIN order :
              project.tasks[order[i]].dependencies \cap DOMAIN project.tasks
                  \subseteq {order[j] : j \in 1..(i - 1)}
AllHoursPositive(project) ==
    \A t \in DOMAIN project.tasks : project.tasks[t].estimated_hours > 0

\* C28: on a project whose dependency graph is acyclic and whose tasks all
\* have estimated_hours > 0, the total estimated_hours of the chain
\* get_critical_path returns is the maximum of the totals of the dependency
\* paths that begin at a dependency-free task (no such path: the chain is
\* empty).
C28_LongestPath ==
    Called("get_critical_path") =>
        LET project == projects[call.project_id]
        IN  (Acyclic(project) /\ AllHoursPositive(project)) =>
                /\ \A path \in DependencyPaths(project) :
                      PathHours(project, path) <= Hours(ret.value)
                /\ IF DependencyPaths(project) = {}
                   THEN ret.value = <<>>
                   ELSE \E path \in DependencyPaths(project) :
                           /\ PathHours(project, path) = Hours(ret.value)
                           /\ Len(path) = Len(ret.value)
                           /\ \A i \in DOMAIN path : ret.value[i].id = path[i]

\* Task 1 (2h), task 2 (3h) depending on 1 and task 3 (5h) depending on 1
\* and 2: the path 1, 2, 3 totals 10 hours, the path 1, 3 only 7.
C28_Witness ==
    /\ Called("get_critical_path")
    /\ LET project == projects[call.project_id]
       IN  /\ project.order = <<1, 2, 3>>
           /\ project.tasks[1].estimated_hours = 2 /\ project.tasks[1].dependencies = {}
           /\ project.tasks[2].estimated_hours = 3 /\ project.tasks[2].dependencies = {1}
           /\ project.tasks[3].estimated_hours = 5 /\ project.tasks[3].dependencies = {1, 2}
           /\ Hours(ret.value) = 10
           /\ Len(ret.value) = 3


\* ------------------------------------------------------------------- C29
NotStartedOrCompleted(project) ==
    \A t \in DOMAIN project.tasks : project.tasks[t].status \in {NOT_STARTED, COMPLETED}
SomeNotStarted(project) ==
    \E t \in DOMAIN project.tasks : project.tasks[t].status = NOT_STARTED
\* The project has tasks and its dependency graph is acyclic.
Schedulable(p) ==
    /\ p \in DOMAIN projects
    /\ DOMAIN projects[p].tasks # {}
    /\ Acyclic(projects[p])
    /\ NotStartedOrCompleted(projects[p])
C29_Available ==
    \A p \in DOMAIN projects :
        (Acyclic(projects[p]) /\ NotStartedOrCompleted(projects[p])
            /\ SomeNotStarted(projects[p]))
        => get_available_tasks(projects, p).value # <<>>
\* A task the worker completes had all its existing dependencies COMPLETED.
C29_Step ==
    \A p \in DOMAIN projects : \A t \in DOMAIN projects[p].tasks :
        (projects[p].tasks[t].status # COMPLETED /\ projects'[p].tasks[t].status = COMPLETED)
        => \A d \in projects[p].tasks[t].dependencies \cap DOMAIN projects[p].tasks :
              projects[p].tasks[d].status = COMPLETED

\* C29: in a project with an acyclic dependency graph whose tasks are all
\* NOT_STARTED or COMPLETED, get_available_tasks is non-empty whenever some
\* task is NOT_STARTED; the worker never completes a task before all of its
\* existing dependencies are COMPLETED; and, under weak fairness of the
\* worker, such a project that has tasks is eventually COMPLETED.
C29_WorkerProgress ==
    /\ [](C29_Available)
    /\ [][C29_Step]_vars
    /\ \A p \in 1..MaxProjects :
          Schedulable(p) ~> (p \in DOMAIN projects /\ projects[p].status = COMPLETED)

\* The worker has completed task 1, then task 2 that depends on it, then
\* task 3 that depends on both, and with the last one the project.
C29_Witness ==
    /\ Called("update_task_status")
    /\ call.task_id = 3
    /\ LET project == projects[call.project_id]
       IN  /\ project.status = COMPLETED
           /\ project.order = <<1, 2, 3>>
           /\ project.tasks[1].dependencies = {}
           /\ project.tasks[2].dependencies = {1}
           /\ project.tasks[3].dependencies = {1, 2}
           /\ EveryTaskCompleted(project)


\* ------------------------------------------------------------------- C30
\* The projects as they were, but for the named task's status and
\* completion_date and the named project's status and completion_date,
\* which are taken as they are afterwards.
ButFor(ps, qs, p, t) ==
    [ps EXCEPT ![p] = [@ EXCEPT !.status = qs[p].status,
                                !.completion_date = qs[p].completion_date,
                                !.tasks[t] = [@ EXCEPT
                                    !.status = qs[p].tasks[t].status,
                                    !.completion_date = qs[p].tasks[t].completion_date]]]
C30_Step ==
    (call'.op = "update_task_status" /\ ret'.outcome = OK) =>
        /\ DOMAIN projects' = DOMAIN projects
        /\ DOMAIN projects'[call'.project_id].tasks = DOMAIN projects[call'.project_id].tasks
        /\ projects' = ButFor(projects, projects', call'.project_id, call'.task_id)

\* C30: a successful update_task_status(p, t, s) changes only task t's
\* status and completion_date (and updated_at, a timestamp not kept here)
\* and project p's status and completion_date: every other task, every
\* task's dependencies and assigned agents, the set of tasks of every
\* project and every field of every other project are unchanged.
C30_UpdateFrame == [][C30_Step]_vars

\* Task 2, which depends on task 1, was set IN_PROGRESS beside the completed
\* task 1 of the same project, while a second project exists.
C30_Witness ==
    /\ Called("update_task_status")
    /\ call.project_id = 1 /\ call.task_id = 2
    /\ DOMAIN projects = {1, 2}
    /\ DOMAIN projects[1].tasks = {1, 2}
    /\ projects[1].tasks[1].status = COMPLETED
    /\ projects[1].tasks[1].completion_date # None
    /\ projects[1].tasks[2].status = IN_PROGRESS
    /\ projects[1].tasks[2].dependencies = {1}


============================================================================
